---- MODULE Spec2Model ----
(***************************************************************************)
(* Model of dnn_xor/mini_dnn_xor.ipynb: a two-layer sigmoid network        *)
(* trained on XOR by full-batch gradient descent with hand-written         *)
(* backpropagation.                                                        *)
(*                                                                         *)
(* Numbers.  numpy's float64 values are modelled as fixed-point integers   *)
(* in units of 1/Scale (Scale = 100: 0.1 is 10, 1.0 is 100), every         *)
(* arithmetic result rounded to the nearest unit.  float64's finite range  *)
(* is modelled by MaxFinite: a result beyond it is +inf or -inf, and nan   *)
(* arises as IEEE-754 says (inf - inf, 0 * inf).  The three special values *)
(* are the integers PosInf, NegInf, NaN outside the finite range.          *)
(*                                                                         *)
(* Arrays.  A 2-D numpy array is a sequence of rows; numpy's broadcasting  *)
(* rules for 2-D operands are modelled, and an operation numpy refuses     *)
(* (ValueError) yields Err.                                                *)
(***************************************************************************)
EXTENDS Integers, Sequences, FiniteSets, TLC

\* ------------------------------------------------------------ bounds
MaxN == 2          \* batch rows
MaxDim == 2        \* input_size, hidden_size, output_size
MaxEpochs == 3     \* the argument of range(...)
MaxInterval == 2   \* the modulus of the periodic print

\* ------------------------------------------------------------ float64
Scale == 100
MaxFinite == 30000
PosInf == MaxFinite + 1
NegInf == -(MaxFinite + 1)
NaN == MaxFinite + 2

IsFinite(a) == a >= -MaxFinite /\ a <= MaxFinite

\* n / d rounded to the nearest integer (d > 0)
RoundDiv(n, d) == (2 * n + d) \div (2 * d)

\* a finite result, or the infinity it overflows to
Overflow(v) == IF v > MaxFinite THEN PosInf ELSE IF v < -MaxFinite THEN NegInf ELSE v

Sign(a) == IF a > 0 THEN 1 ELSE IF a < 0 THEN -1 ELSE 0

FNeg(a) == IF a = NaN THEN NaN ELSE -a

FAdd(a, b) ==
    IF a = NaN \/ b = NaN THEN NaN
    ELSE IF ~IsFinite(a) THEN (IF ~IsFinite(b) /\ b # a THEN NaN ELSE a)
    ELSE IF ~IsFinite(b) THEN b
    ELSE Overflow(a + b)

FSub(a, b) == FAdd(a, FNeg(b))

FMul(a, b) ==
    IF a = NaN \/ b = NaN THEN NaN
    ELSE IF ~IsFinite(a) \/ ~IsFinite(b)
         THEN (IF a = 0 \/ b = 0 THEN NaN
               ELSE IF Sign(a) * Sign(b) > 0 THEN PosInf ELSE NegInf)
    ELSE Overflow(RoundDiv(a * b, Scale))

\* a / n for a positive integer count n (np.mean's division)
FDivCount(a, n) == IF ~IsFinite(a) THEN a ELSE RoundDiv(a, n)

\* round(100 * sigmoid(t / 100)) >= 50 + k  iff  t >= SigmoidSteps[k]
SigmoidSteps ==
    << 3, 7, 11, 15, 19, 23, 27, 31, 35, 39, 43, 47, 52, 56, 60, 65, 69, 74, 78,
       83, 88, 92, 97, 103, 108, 113, 119, 124, 130, 136, 142, 149, 156, 163,
       170, 178, 186, 195, 205, 215, 226, 238, 252, 267, 285, 306, 332, 367,
       419, 530 >>

\* 1 / (1 + exp(-t)) of one element, rounded to the nearest unit
Sigmoid1(t) ==
    IF t = NaN THEN NaN
    ELSE IF t >= 0
         THEN (Scale \div 2) + Cardinality({k \in DOMAIN SigmoidSteps : SigmoidSteps[k] <= t})
         ELSE (Scale \div 2) - Cardinality({k \in DOMAIN SigmoidSteps : SigmoidSteps[k] <= -t})

\* a * (1 - a) of one element
SigmoidDerivative1(t) == FMul(t, FSub(Scale, t))

\* ------------------------------------------------------------ arrays
Err == << >>
IsErr(A) == Len(A) = 0
Rows(A) == Len(A)
Cols(A) == Len(A[1])
Shape(A) == IF IsErr(A) THEN <<0, 0>> ELSE <<Rows(A), Cols(A)>>

Max2(a, b) == IF a >= b THEN a ELSE b

\* the function f on 1..n as a sequence value, its elements computed once
AsSeq(f) == f \o << >>

\* the r x c array whose element (i, j) is F(i, j)
Array(r, c, F(_, _)) == AsSeq([i \in 1..r |-> AsSeq([j \in 1..c |-> F(i, j)])])

\* np.zeros((r, c))
Zeros(r, c) == Array(r, c, LAMBDA i, j : 0)

\* A.T
T(A) == IF IsErr(A) THEN Err ELSE Array(Cols(A), Rows(A), LAMBDA j, i : A[i][j])

RECURSIVE DotFrom(_, _, _, _, _)
\* sum over k..Cols(A) of A[i][k] * B[k][j], accumulated left to right
DotFrom(A, B, i, j, k) ==
    IF k > Cols(A) THEN 0
    ELSE IF k = Cols(A) THEN FMul(A[i][k], B[k][j])
    ELSE FAdd(FMul(A[i][k], B[k][j]), DotFrom(A, B, i, j, k + 1))

\* A @ B: inner dimensions must agree
MatMul(A, B) ==
    IF IsErr(A) \/ IsErr(B) THEN Err
    ELSE IF Cols(A) # Rows(B) THEN Err
    ELSE Array(Rows(A), Cols(B), LAMBDA i, j : DotFrom(A, B, i, j, 1))

\* two extents broadcast together when they are equal or one of them is 1
Compatible(m, n) == m = n \/ m = 1 \/ n = 1

Broadcastable(A, B) ==
    /\ ~IsErr(A) /\ ~IsErr(B)
    /\ Compatible(Rows(A), Rows(B))
    /\ Compatible(Cols(A), Cols(B))

\* the element of A that position (i, j) of the broadcast result reads
At(A, i, j) == A[IF Rows(A) = 1 THEN 1 ELSE i][IF Cols(A) = 1 THEN 1 ELSE j]

\* an elementwise binary operation with numpy's broadcasting
Elementwise(Op(_, _), A, B) ==
    IF ~Broadcastable(A, B) THEN Err
    ELSE Array(Max2(Rows(A), Rows(B)), Max2(Cols(A), Cols(B)),
               LAMBDA i, j : Op(At(A, i, j), At(B, i, j)))

Add(A, B) == Elementwise(FAdd, A, B)
Sub(A, B) == Elementwise(FSub, A, B)
Mul(A, B) == Elementwise(FMul, A, B)

\* -A
Neg(A) == IF IsErr(A) THEN Err ELSE Array(Rows(A), Cols(A), LAMBDA i, j : FNeg(A[i][j]))

\* s * A for a scalar s
ScalarMul(s, A) ==
    IF IsErr(A) THEN Err ELSE Array(Rows(A), Cols(A), LAMBDA i, j : FMul(s, A[i][j]))

\* A ** 2
Square(A) ==
    IF IsErr(A) THEN Err ELSE Array(Rows(A), Cols(A), LAMBDA i, j : FMul(A[i][j], A[i][j]))

RECURSIVE RowSumOf(_, _, _)
RowSumOf(A, i, j) == IF j = Cols(A) THEN A[i][j] ELSE FAdd(A[i][j], RowSumOf(A, i, j + 1))

\* np.sum(A, axis=1, keepdims=True): one column, the sum of each row
SumAxis1(A) == IF IsErr(A) THEN Err ELSE Array(Rows(A), 1, LAMBDA i, j : RowSumOf(A, i, 1))

RECURSIVE ColSumFrom(_, _, _)
ColSumFrom(A, j, i) ==
    IF i = Rows(A) THEN A[i][j] ELSE FAdd(A[i][j], ColSumFrom(A, j, i + 1))

\* np.sum(A, axis=0, keepdims=True): one row, the sum of each column
SumAxis0(A) == IF IsErr(A) THEN Err ELSE Array(1, Cols(A), LAMBDA i, j : ColSumFrom(A, j, 1))

RECURSIVE RowSumFrom(_, _, _)
RowSumFrom(A, i, j) ==
    IF j = Cols(A) THEN A[i][j] ELSE FAdd(A[i][j], RowSumFrom(A, i, j + 1))

RECURSIVE TotalFrom(_, _)
TotalFrom(A, i) ==
    IF i = Rows(A) THEN RowSumFrom(A, i, 1) ELSE FAdd(RowSumFrom(A, i, 1), TotalFrom(A, i + 1))

\* np.mean(A): the sum of every element over the number of elements
Mean(A) == FDivCount(TotalFrom(A, 1), Rows(A) * Cols(A))

\* A -= B: B must broadcast to the shape A already has
InPlaceSub(A, B) ==
    IF ~Broadcastable(A, B) THEN Err
    ELSE IF Rows(B) > Rows(A) \/ Cols(B) > Cols(A) THEN Err
    ELSE Sub(A, B)

\* sigmoid(z), elementwise
sigmoid(z) ==
    IF IsErr(z) THEN Err ELSE Array(Rows(z), Cols(z), LAMBDA i, j : Sigmoid1(z[i][j]))

\* sigmoid_derivative(a), elementwise
sigmoid_derivative(a) ==
    IF IsErr(a) THEN Err
    ELSE Array(Rows(a), Cols(a), LAMBDA i, j : SigmoidDerivative1(a[i][j]))

\* ------------------------------------------------------------ state
VARIABLES
    X, y,                                   \* the data (lines 71-76)
    input_size, hidden_size, output_size,   \* neurons per layer
    lr,                                     \* learning rate
    seed,                                   \* argument of np.random.seed
    n_epochs, report_every,                 \* range(20000), epoch % 1000
    W1, b1, W2, b2,                         \* the parameters
    z1, a1, z2, y_hat, loss,                \* feedforward pass and loss
    d_loss_y_hat, d_y_hat_z2, d_z2_W2, dW2, db2,
    d_z2_a1, d_a1_z1, dW1, db1,             \* backpropagation
    epoch,                                  \* position of the range iterator
    pc,                                     \* the statement to run next
    stdout,                                 \* the lines printed by the loop
    printed_pred, printed_mse               \* the output of the last cell

inputs == <<X, y, input_size, hidden_size, output_size, lr, seed, n_epochs, report_every>>
params == <<W1, b1, W2, b2>>
cache == <<z1, a1, z2, y_hat>>
grads2 == <<d_loss_y_hat, d_y_hat_z2, d_z2_W2, dW2, db2>>
grads1 == <<d_z2_a1, d_a1_z1, dW1, db1>>
printed == <<stdout, printed_pred, printed_mse>>
vars == <<inputs, params, cache, loss, grads2, grads1, epoch, pc, printed>>

\* a name not bound yet
Unset == << >>

\* ------------------------------------------------------------ data and initialisation
RECURSIVE Pow2(_)
Pow2(k) == IF k = 0 THEN 1 ELSE 2 * Pow2(k - 1)

Bit(v, k) == (v \div Pow2(k)) % 2

RECURSIVE Parity(_, _)
Parity(v, k) == IF k = 0 THEN 0 ELSE (Bit(v, k - 1) + Parity(v, k - 1)) % 2

\* the truth-table inputs: row r is the binary numeral of r - 1 + off, most
\* significant bit first; [[0,0],[0,1],[1,0],[1,1]] for 4 rows, 2 columns, off 0
DataX(rows, cols, off, one) ==
    Array(rows, cols, LAMBDA r, c : one * Bit(r - 1 + off, cols - c))

\* the truth-table outputs: the exclusive or of the row's bits, in every column;
\* [[0],[1],[1],[0]] for 4 rows of 2 bits, 1 column, off 0
DataY(rows, cols, bits, off) ==
    Array(rows, cols, LAMBDA r, c : Scale * Parity(r - 1 + off, bits))

\* np.random.seed(42); np.random.randn(...): the first twelve draws, rounded
RandnTable == << 50, -14, 65, 152, -23, -23, 158, 77, -47, 54, -46, -47 >>

\* draw number k (from 0) of the stream that seed s starts
Randn1(s, k) == RandnTable[((5 * s + k) % Len(RandnTable)) + 1]

\* np.random.randn(r, c), filled row by row from draw number first on
Randn(s, first, r, c) ==
    Array(r, c, LAMBDA i, j : Randn1(s, first + (i - 1) * c + (j - 1)))

\* lr = 0.1
LrReference == 10

InitWith(n, xcols, yshape, i, h, o, off, one, s, rate, epochs, interval) ==
    /\ X = DataX(n, xcols, off, one)
    /\ y = DataY(yshape[1], yshape[2], xcols, off)
    /\ input_size = i /\ hidden_size = h /\ output_size = o
    /\ lr = rate
    /\ seed = s
    /\ n_epochs = epochs /\ report_every = interval
    /\ W1 = Randn(s, 0, i, h)
    /\ b1 = Zeros(1, h)
    /\ W2 = Randn(s, i * h, h, o)
    /\ b2 = Zeros(1, o)
    /\ z1 = Unset /\ a1 = Unset /\ z2 = Unset /\ y_hat = Unset /\ loss = Unset
    /\ d_loss_y_hat = Unset /\ d_y_hat_z2 = Unset /\ d_z2_W2 = Unset
    /\ dW2 = Unset /\ db2 = Unset
    /\ d_z2_a1 = Unset /\ d_a1_z1 = Unset /\ dW1 = Unset /\ db1 = Unset
    /\ epoch = 0
    /\ pc = "for"
    /\ stdout = << >>
    /\ printed_pred = Unset /\ printed_mse = Unset

\* learning rates of the well-behaved runs: 0.1 and 2.0
LearningRates == {LrReference, 2 * Scale}

\* <<argument of np.random.seed, first row of the truth table used>>
Variants == {<<0, 0>>, <<3, 1>>}

\* arguments of range(...): the shortest run and the longest
EpochCounts == {1, MaxEpochs}

\* data and parameters of conformant shapes
Init ==
    \E n \in 1..MaxN, i \in 1..MaxDim, h \in 1..MaxDim, o \in 1..MaxDim,
       v \in Variants, rate \in LearningRates,
       epochs \in EpochCounts, interval \in 1..MaxInterval :
        InitWith(n, i, <<n, o>>, i, h, o, v[2], Scale, v[1], rate, epochs, interval)

\* the shapes a target for n rows and o outputs may be supplied in
TargetShapes(n, o) == {<<n, o>>, <<1, o>>, <<n, 1>>, <<1, 1>>, <<n + 1, o>>}

\* data whose shape may differ from the declared one
InitShapes ==
    \E n \in 1..MaxN, i \in 1..MaxDim, h \in 1..MaxDim, o \in 1..MaxDim,
       epochs \in EpochCounts :
        \E xcols \in {i, i + 1}, yshape \in TargetShapes(n, o) :
            InitWith(n, xcols, yshape, i, h, o, 0, Scale, 0, 2 * Scale, epochs, 1)

\* a pathological learning rate: the largest finite number
InitLargeRate ==
    \E n \in 1..MaxN, i \in 1..MaxDim, h \in 1..MaxDim, o \in 1..MaxDim,
       v \in Variants, epochs \in EpochCounts :
        InitWith(n, i, <<n, o>>, i, h, o, v[2], Scale, v[1], MaxFinite, epochs, 1)

\* ------------------------------------------------------------ the training loop
\* Each statement's value is bound once (\E v \in {e}) in the order Python
\* evaluates it; a statement numpy refuses raises, which ends the run at
\* pc = "error" with the names bound so far.

\* RangeExhausted with an early exit once the loss is at most 0.3
RangeExhausted_or_loss_small == epoch >= n_epochs \/ (epoch > 0 /\ loss[1] <= 30)

\* for epoch in range(n_epochs): the iterator is exhausted
RangeExhausted == epoch >= n_epochs

For ==
    /\ pc = "for"
    /\ pc' = IF RangeExhausted THEN "done" ELSE "forward"
    /\ UNCHANGED <<inputs, params, cache, loss, grads2, grads1, epoch, printed>>

\* z1 = X @ W1 + b1; a1 = sigmoid(z1); z2 = a1 @ W2 + b2; y_hat = sigmoid(z2)
Feedforward ==
    /\ pc = "forward"
    /\ \E xw \in {MatMul(X, W1)} :
       \E z1n \in {Add(xw, b1)} :
       \E a1n \in {sigmoid(z1n)} :
       \E aw \in {MatMul(a1n, W2)} :
       \E z2n \in {Add(aw, b2)} :
       \E y_hatn \in {sigmoid(z2n)} :
          /\ z1' = IF IsErr(z1n) THEN z1 ELSE z1n
          /\ a1' = IF IsErr(a1n) THEN a1 ELSE a1n
          /\ z2' = IF IsErr(z2n) THEN z2 ELSE z2n
          /\ y_hat' = IF IsErr(y_hatn) THEN y_hat ELSE y_hatn
          /\ pc' = IF IsErr(y_hatn) THEN "error" ELSE "loss"
    /\ UNCHANGED <<inputs, params, loss, grads2, grads1, epoch, printed>>

\* loss = np.mean((y - y_hat) ** 2)
ComputeLoss ==
    /\ pc = "loss"
    /\ \E res \in {Sub(y, y_hat)} :
       \E sq \in {Square(res)} :
          /\ loss' = IF IsErr(sq) THEN loss ELSE <<Mean(sq)>>
          /\ pc' = IF IsErr(sq) THEN "error" ELSE "backprop_out"
    /\ UNCHANGED <<inputs, params, cache, grads2, grads1, epoch, printed>>

\* BackpropOutput with W2 -= lr * dW2 run as soon as dW2 exists
BackpropOutput_updates_early ==
    /\ pc = "backprop_out"
    /\ \E res \in {Sub(y, y_hat)} :
       \E dl \in {Neg(res)} :
       \E dy \in {sigmoid_derivative(y_hat)} :
       \E dz \in {a1} :
       \E e2 \in {Mul(dl, dy)} :
       \E dW2n \in {MatMul(T(dz), e2)} :
       \E db2n \in {SumAxis0(e2)} :
       \E step \in {ScalarMul(lr, dW2n)} :
          /\ d_loss_y_hat' = dl
          /\ d_y_hat_z2' = dy
          /\ d_z2_W2' = dz
          /\ dW2' = dW2n
          /\ db2' = db2n
          /\ W2' = InPlaceSub(W2, step)
          /\ pc' = "backprop_hidden"
    /\ UNCHANGED <<inputs, W1, b1, b2, cache, loss, grads1, epoch, printed>>

\* BackpropOutput with the sign of the error term lost: d_loss_y_hat = y - y_hat
BackpropOutput_sign_lost ==
    /\ pc = "backprop_out"
    /\ \E dl \in {Sub(y, y_hat)} :
       \E dy \in {sigmoid_derivative(y_hat)} :
       \E dz \in {a1} :
       \E e2 \in {Mul(dl, dy)} :
       \E dW2n \in {MatMul(T(dz), e2)} :
       \E db2n \in {SumAxis0(e2)} :
          /\ d_loss_y_hat' = dl
          /\ d_y_hat_z2' = dy
          /\ d_z2_W2' = dz
          /\ dW2' = dW2n
          /\ db2' = db2n
          /\ pc' = "backprop_hidden"
    /\ UNCHANGED <<inputs, params, cache, loss, grads1, epoch, printed>>

\* d_loss_y_hat = -(y - y_hat); d_y_hat_z2 = sigmoid_derivative(y_hat);
\* d_z2_W2 = a1; dW2 = d_z2_W2.T @ (d_loss_y_hat * d_y_hat_z2);
\* db2 = np.sum(d_loss_y_hat * d_y_hat_z2, axis=0, keepdims=True)
BackpropOutput ==
    /\ pc = "backprop_out"
    /\ \E res \in {Sub(y, y_hat)} :
       \E dl \in {Neg(res)} :
       \E dy \in {sigmoid_derivative(y_hat)} :
       \E dz \in {a1} :
       \E e2 \in {Mul(dl, dy)} :
       \E dW2n \in {MatMul(T(dz), e2)} :
       \E e2b \in {Mul(dl, dy)} :
       \E db2n \in {SumAxis0(e2b)} :
          /\ d_loss_y_hat' = IF IsErr(dl) THEN d_loss_y_hat ELSE dl
          /\ d_y_hat_z2' = IF IsErr(dl) THEN d_y_hat_z2 ELSE dy
          /\ d_z2_W2' = IF IsErr(dl) THEN d_z2_W2 ELSE dz
          /\ dW2' = IF IsErr(dW2n) THEN dW2 ELSE dW2n
          /\ db2' = IF IsErr(dW2n) \/ IsErr(db2n) THEN db2 ELSE db2n
          /\ pc' = IF IsErr(dW2n) \/ IsErr(db2n) THEN "error" ELSE "backprop_hidden"
    /\ UNCHANGED <<inputs, params, cache, loss, grads1, epoch, printed>>

\* BackpropHidden with sigmoid_derivative applied to the pre-activation z1
BackpropHidden_preactivation ==
    /\ pc = "backprop_hidden"
    /\ \E dz \in {W2} :
       \E da \in {sigmoid_derivative(z1)} :
       \E e2 \in {Mul(d_loss_y_hat, d_y_hat_z2)} :
       \E back \in {MatMul(e2, T(dz))} :
       \E e1 \in {Mul(back, da)} :
       \E dW1n \in {MatMul(T(X), e1)} :
       \E db1n \in {SumAxis0(e1)} :
          /\ d_z2_a1' = dz
          /\ d_a1_z1' = da
          /\ dW1' = dW1n
          /\ db1' = db1n
          /\ pc' = "update_W2"
    /\ UNCHANGED <<inputs, params, cache, loss, grads2, epoch, printed>>

\* d_z2_a1 = W2; d_a1_z1 = sigmoid_derivative(a1);
\* dW1 = X.T @ ((d_loss_y_hat * d_y_hat_z2) @ d_z2_a1.T * d_a1_z1);
\* db1 = np.sum((d_loss_y_hat * d_y_hat_z2) @ d_z2_a1.T * d_a1_z1, axis=0, keepdims=True)
\* (@ and * have the same precedence and group from the left)
BackpropHidden ==
    /\ pc = "backprop_hidden"
    /\ \E dz \in {W2} :
       \E da \in {sigmoid_derivative(a1)} :
       \E e2 \in {Mul(d_loss_y_hat, d_y_hat_z2)} :
       \E back \in {MatMul(e2, T(dz))} :
       \E e1 \in {Mul(back, da)} :
       \E dW1n \in {MatMul(T(X), e1)} :
       \E e2b \in {Mul(d_loss_y_hat, d_y_hat_z2)} :
       \E backb \in {MatMul(e2b, T(dz))} :
       \E e1b \in {Mul(backb, da)} :
       \E db1n \in {SumAxis0(e1b)} :
          /\ d_z2_a1' = dz
          /\ d_a1_z1' = da
          /\ dW1' = IF IsErr(dW1n) THEN dW1 ELSE dW1n
          /\ db1' = IF IsErr(dW1n) \/ IsErr(db1n) THEN db1 ELSE db1n
          /\ pc' = IF IsErr(dW1n) \/ IsErr(db1n) THEN "error" ELSE "update_W2"
    /\ UNCHANGED <<inputs, params, cache, loss, grads2, epoch, printed>>

\* W2 -= lr * dW2
UpdateW2 ==
    /\ pc = "update_W2"
    /\ \E step \in {ScalarMul(lr, dW2)} :
       \E W2n \in {InPlaceSub(W2, step)} :
          /\ W2' = IF IsErr(W2n) THEN W2 ELSE W2n
          /\ pc' = IF IsErr(W2n) THEN "error" ELSE "update_b2"
    /\ UNCHANGED <<inputs, W1, b1, b2, cache, loss, grads2, grads1, epoch, printed>>

\* b2 -= lr * db2
Updateb2 ==
    /\ pc = "update_b2"
    /\ \E step \in {ScalarMul(lr, db2)} :
       \E b2n \in {InPlaceSub(b2, step)} :
          /\ b2' = IF IsErr(b2n) THEN b2 ELSE b2n
          /\ pc' = IF IsErr(b2n) THEN "error" ELSE "update_W1"
    /\ UNCHANGED <<inputs, W1, b1, W2, cache, loss, grads2, grads1, epoch, printed>>

\* W1 -= lr * dW1
UpdateW1 ==
    /\ pc = "update_W1"
    /\ \E step \in {ScalarMul(lr, dW1)} :
       \E W1n \in {InPlaceSub(W1, step)} :
          /\ W1' = IF IsErr(W1n) THEN W1 ELSE W1n
          /\ pc' = IF IsErr(W1n) THEN "error" ELSE "update_b1"
    /\ UNCHANGED <<inputs, b1, W2, b2, cache, loss, grads2, grads1, epoch, printed>>

\* b1 -= lr * db1
Updateb1 ==
    /\ pc = "update_b1"
    /\ \E step \in {ScalarMul(lr, db1)} :
       \E b1n \in {InPlaceSub(b1, step)} :
          /\ b1' = IF IsErr(b1n) THEN b1 ELSE b1n
          /\ pc' = IF IsErr(b1n) THEN "error" ELSE "report"
    /\ UNCHANGED <<inputs, W1, W2, b2, cache, loss, grads2, grads1, epoch, printed>>

RECURSIVE Pow10(_)
Pow10(k) == IF k = 0 THEN 1 ELSE 10 * Pow10(k - 1)

\* v rounded to `digits` decimals (np.round(v, digits), f"{v:.<digits>f}"): the
\* nearest multiple of 10^-digits, which v is already when 10^digits >= Scale
RoundDecimals(v, digits) ==
    IF ~IsFinite(v) THEN v
    ELSE IF Pow10(digits) >= Scale
         THEN RoundDiv(v * (Pow10(digits) \div Scale), Pow10(digits) \div Scale)
         ELSE RoundDiv(v, Scale \div Pow10(digits)) * (Scale \div Pow10(digits))

\* ReportDue counting the iterations from 1
ReportDue_from_one == (epoch + 1) % report_every = 0

\* epoch % 1000 == 0
ReportDue == epoch % report_every = 0

\* if epoch % 1000 == 0: print(f"Epoch {epoch}, Loss: {loss:.5f}"); then the
\* iterator advances
Report ==
    /\ pc = "report"
    /\ stdout' = IF ReportDue THEN Append(stdout, <<epoch, RoundDecimals(loss[1], 5)>>) ELSE stdout
    /\ epoch' = epoch + 1
    /\ pc' = "for"
    /\ UNCHANGED <<inputs, params, cache, loss, grads2, grads1, printed_pred, printed_mse>>

\* FinalPredictions after one more feedforward pass of the trained parameters
FinalPredictions_fresh_pass ==
    /\ pc = "done"
    /\ \E xw \in {MatMul(X, W1)} :
       \E z1n \in {Add(xw, b1)} :
       \E a1n \in {sigmoid(z1n)} :
       \E aw \in {MatMul(a1n, W2)} :
       \E z2n \in {Add(aw, b2)} :
       \E y_hatn \in {sigmoid(z2n)} :
       \E res \in {Sub(y, y_hatn)} :
       \E sq \in {Square(res)} :
          /\ printed_pred' = Array(Rows(y_hatn), Cols(y_hatn),
                                   LAMBDA i, j : RoundDecimals(y_hatn[i][j], 3))
          /\ printed_mse' = <<Mean(sq)>>
          /\ pc' = "predicted"
    /\ UNCHANGED <<inputs, params, cache, loss, grads2, grads1, epoch, stdout>>

\* print(np.round(y_hat, 3)); print("mse = ", np.mean((y - y_hat) ** 2))
FinalPredictions ==
    /\ pc = "done"
    /\ \E res \in {Sub(y, y_hat)} :
       \E sq \in {Square(res)} :
          /\ printed_pred' = Array(Rows(y_hat), Cols(y_hat),
                                   LAMBDA i, j : RoundDecimals(y_hat[i][j], 3))
          /\ printed_mse' = IF IsErr(sq) THEN printed_mse ELSE <<Mean(sq)>>
          /\ pc' = IF IsErr(sq) THEN "error" ELSE "predicted"
    /\ UNCHANGED <<inputs, params, cache, loss, grads2, grads1, epoch, stdout>>

Next ==
    \/ For
    \/ Feedforward
    \/ ComputeLoss
    \/ BackpropOutput
    \/ BackpropHidden
    \/ UpdateW2
    \/ Updateb2
    \/ UpdateW1
    \/ Updateb1
    \/ Report
    \/ FinalPredictions

\* runs on data and parameters of conformant shapes
Spec == Init /\ [][Next]_vars

\* the notebook runs its cells to the end: a statement that can run, runs
FairSpec == Spec /\ WF_vars(Next)

\* runs whose target y, or whose data X, may not have the declared shape
SpecShapes == InitShapes /\ [][Next]_vars

\* runs with a learning rate of 300
SpecLargeRate == InitLargeRate /\ [][Next]_vars

\* ------------------------------------------------------------ the documented chain
\* delta2 = -(y - y_hat) . sigma'(y_hat)
Delta2(yv, yh) == Mul(Neg(Sub(yv, yh)), sigmoid_derivative(yh))

\* grad W2 = (a1)^T . delta2
GradW2(a, d2) == MatMul(T(a), d2)

\* grad b2 = sum of delta2 across the batch
Gradb2(d2) == SumAxis0(d2)

\* delta1 = (delta2 . (W2)^T) . sigma'(a1)
Delta1(d2, w2, a) == Mul(MatMul(d2, T(w2)), sigmoid_derivative(a))

\* grad W1 = X^T . delta1
GradW1(x, d1) == MatMul(T(x), d1)

\* grad b1 = sum of delta1 across the batch
Gradb1(d1) == SumAxis0(d1)

\* P <- P - eta . grad P
Descend(P, eta, G) == Sub(P, ScalarMul(eta, G))

\* the parameters <<W1, b1, W2, b2>> the initialisation cell creates
InitialParams ==
    << Randn(seed, 0, input_size, hidden_size),
       Zeros(1, hidden_size),
       Randn(seed, input_size * hidden_size, hidden_size, output_size),
       Zeros(1, output_size) >>

\* the feedforward pass <<z1, a1, z2, y_hat>> of parameters P = <<W1, b1, W2, b2>>
ForwardOf(P) ==
    LET z1v == Add(MatMul(X, P[1]), P[2])
        a1v == sigmoid(z1v)
        z2v == Add(MatMul(a1v, P[3]), P[4])
    IN <<z1v, a1v, z2v, sigmoid(z2v)>>

\* the loss of a prediction
LossOf(yh) == Mean(Square(Sub(y, yh)))

\* the documented gradients <<grad W1, grad b1, grad W2, grad b2>> at P, all
\* from the one feedforward pass of P
GradientsOf(P) ==
    LET F == ForwardOf(P)
        d2 == Delta2(y, F[4])
        d1 == Delta1(d2, P[3], F[2])
    IN <<GradW1(X, d1), Gradb1(d1), GradW2(F[2], d2), Gradb2(d2)>>

\* one documented gradient-descent step: every parameter moves by its gradient at P
StepOf(P) ==
    LET G == GradientsOf(P)
    IN <<Descend(P[1], lr, G[1]), Descend(P[2], lr, G[2]),
         Descend(P[3], lr, G[3]), Descend(P[4], lr, G[4])>>

RECURSIVE ParamsAfter(_)
\* the parameters after k documented steps from the initial ones
ParamsAfter(k) == IF k = 0 THEN InitialParams ELSE StepOf(ParamsAfter(k - 1))

\* ------------------------------------------------------------ claims
HasNonZero(A) == \E i \in 1..Rows(A) : \E j \in 1..Cols(A) : A[i][j] # 0

\* C1: when the backward pass of an iteration is complete, the gradients the
\* loop holds are exactly those of the documented chain: dW2 = a1^T . dZ2 and
\* db2 = column sum of dZ2 with dZ2 = -(y - y_hat) * sigmoid_derivative(y_hat);
\* dW1 = X^T . dZ1 and db1 = column sum of dZ1 with
\* dZ1 = (dZ2 . W2^T) * sigmoid_derivative(a1); and the arguments of
\* sigmoid_derivative are the activations a1 = sigmoid(z1), y_hat = sigmoid(z2).
C1_BackwardPassIsReferenceChain ==
    pc = "update_W2" =>
        /\ a1 = sigmoid(z1)
        /\ y_hat = sigmoid(z2)
        /\ dW2 = GradW2(a1, Delta2(y, y_hat))
        /\ db2 = Gradb2(Delta2(y, y_hat))
        /\ dW1 = GradW1(X, Delta1(Delta2(y, y_hat), W2, a1))
        /\ db1 = Gradb1(Delta1(Delta2(y, y_hat), W2, a1))

\* a backward pass has completed with non-zero gradients in both layers, on a
\* hidden layer whose pre-activation and activation differ
C1_Witness ==
    /\ pc = "update_W2"
    /\ HasNonZero(dW1) /\ HasNonZero(dW2)
    /\ z1 # a1
    /\ sigmoid_derivative(z1) # sigmoid_derivative(a1)

\* the positions of an iteration at which no parameter has been updated yet
BeforeUpdates == {"forward", "loss", "backprop_out", "backprop_hidden", "update_W2"}

\* the positions of an iteration at which all four gradients have been computed
AfterBackprop == {"update_W2", "update_b2", "update_W1", "update_b1", "report"}

RECURSIVE UpdatedInOrder(_, _, _)
\* the parameters P after the in-place updates named by the sequence order
\* (1: W1, 2: b1, 3: W2, 4: b2) with the gradients G
UpdatedInOrder(order, P, G) ==
    IF order = << >> THEN P
    ELSE UpdatedInOrder(Tail(order),
                        [P EXCEPT ![Head(order)] = InPlaceSub(P[Head(order)], ScalarMul(lr, G[Head(order)]))],
                        G)

\* the 24 orders of the four updates
UpdateOrders == {<<o[1], o[2], o[3], o[4]>> : o \in Permutations(1..4)}

\* C2: in every iteration the parameters stay those of the iteration's start
\* until all four gradients exist; the four gradients are those of the
\* parameters of the iteration's start (so dW1 and db1 use the W2 of before
\* W2 -= lr * dW2); and after the four updates the parameters are what the
\* four updates give in any order.
C2_GradientsFromPreUpdateParameters ==
    \A P0 \in {ParamsAfter(epoch)} :
        /\ pc \in BeforeUpdates => params = P0
        /\ pc \in AfterBackprop => <<dW1, db1, dW2, db2>> = GradientsOf(P0)
        /\ pc = "report" =>
             \A o \in UpdateOrders :
                UpdatedInOrder(o, P0, <<dW1, db1, dW2, db2>>) = params

\* an iteration whose update of W2 changed W2, and whose dW1 would have been
\* another had it been computed from the updated W2
C2_Witness ==
    /\ pc = "report"
    /\ W2 # ParamsAfter(epoch)[3]
    /\ dW1 # GradW1(X, Delta1(Delta2(y, y_hat), W2, a1))

\* one step of the loop, seen on pc and epoch: the statements of an iteration in
\* their order, the iterator advancing once per iteration, and the loop left
\* only with the iterator exhausted
C3_InOrder ==
    /\ pc = "for" => /\ epoch' = epoch
                     /\ pc' = IF epoch < n_epochs THEN "forward" ELSE "done"
    /\ pc = "forward" => pc' = "loss" /\ epoch' = epoch
    /\ pc = "loss" => pc' = "backprop_out" /\ epoch' = epoch
    /\ pc = "backprop_out" => pc' = "backprop_hidden" /\ epoch' = epoch
    /\ pc = "backprop_hidden" => pc' = "update_W2" /\ epoch' = epoch
    /\ pc = "update_W2" => pc' = "update_b2" /\ epoch' = epoch
    /\ pc = "update_b2" => pc' = "update_W1" /\ epoch' = epoch
    /\ pc = "update_W1" => pc' = "update_b1" /\ epoch' = epoch
    /\ pc = "update_b1" => pc' = "report" /\ epoch' = epoch
    /\ pc = "report" => pc' = "for" /\ epoch' = epoch + 1
    /\ pc = "done" => pc' = "predicted" /\ epoch' = epoch

\* C3: the loop reaches "done", with exactly n_epochs iterations run, each one
\* forward pass, loss, backward pass, update in that order, whatever the losses.
C3_TerminatesAfterAllIterations ==
    /\ [][C3_InOrder]_vars
    /\ [](pc \in {"done", "predicted"} => epoch = n_epochs)
    /\ <>(pc = "done")

\* the loop has ended after more than one iteration, with a loss that has
\* changed on the way
C3_Witness ==
    /\ pc = "done"
    /\ epoch = n_epochs /\ n_epochs >= 2
    /\ loss # <<LossOf(ForwardOf(InitialParams)[4])>>

RECURSIVE ReportsFrom(_, _, _)
\* the lines due for the iterations i .. k-1, the parameters at the start of
\* iteration i being P
ReportsFrom(i, k, P) ==
    IF i >= k THEN << >>
    ELSE (IF i % report_every = 0
          THEN << <<i, RoundDecimals(LossOf(ForwardOf(P)[4]), 5)>> >>
          ELSE << >>) \o ReportsFrom(i + 1, k, StepOf(P))

\* C4: the lines printed so far are, in increasing order, one per completed
\* iteration i with i mod report_every = 0 (i = 0 included, i = n_epochs never),
\* each with the loss of the forward pass of the parameters after i updates.
C4_ReportsAtMultiples ==
    /\ stdout = ReportsFrom(0, epoch, InitialParams)
    /\ \A k \in 1..Len(stdout) : stdout[k][1] < n_epochs

\* a finished run that printed for some iterations and not for others, with
\* different losses
C4_Witness ==
    /\ pc = "done"
    /\ Len(stdout) >= 2 /\ Len(stdout) < n_epochs
    /\ stdout[1][2] # stdout[2][2]

\* C6: W1 is input_size x hidden_size, b1 is 1 x hidden_size, W2 is
\* hidden_size x output_size and b2 is 1 x output_size at every point, and
\* every gradient that exists has the shape of the parameter it updates.
C6_ShapesFixed ==
    /\ Shape(W1) = <<input_size, hidden_size>>
    /\ Shape(b1) = <<1, hidden_size>>
    /\ Shape(W2) = <<hidden_size, output_size>>
    /\ Shape(b2) = <<1, output_size>>
    /\ dW2 # Unset => Shape(dW2) = Shape(W2)
    /\ db2 # Unset => Shape(db2) = Shape(b2)
    /\ dW1 # Unset => Shape(dW1) = Shape(W1)
    /\ db1 # Unset => Shape(db1) = Shape(b1)

\* all four parameters updated, in a network with more than one row, input,
\* hidden unit and output
C6_Witness ==
    /\ pc = "report"
    /\ Rows(X) > 1 /\ input_size > 1 /\ hidden_size > 1 /\ output_size > 1
    /\ params # InitialParams
    /\ Shape(dW1) = <<input_size, hidden_size>> /\ Shape(db1) = <<1, hidden_size>>

\* the declared shapes: X is N x input_size, y is N x output_size, W1 is
\* input_size x hidden_size, b1 is 1 x hidden_size, W2 is hidden_size x
\* output_size, b2 is 1 x output_size
Conformant ==
    /\ Cols(X) = input_size
    /\ Shape(y) = <<Rows(X), output_size>>
    /\ Shape(W1) = <<input_size, hidden_size>>
    /\ Shape(b1) = <<1, hidden_size>>
    /\ Shape(W2) = <<hidden_size, output_size>>
    /\ Shape(b2) = <<1, output_size>>

\* C7: with an operand whose shape is not the declared one, the run is
\* aborted by a dimension-mismatch error: no iteration completes.
C7_MisshapedRunAborts ==
    ~Conformant => epoch = 0 /\ pc \notin {"report", "done", "predicted"}

AllFinite(A) == \A i \in 1..Len(A) : \A j \in 1..Len(A[i]) : IsFinite(A[i][j])

\* np.exp(t) is inf from t = 5.71 on: exp(5.71) > 300.00, the largest finite number
ExpOverflowAt == 571

\* sigmoid(z) computed np.exp(-z) = inf for some element of z
ExpOverflowed(z) ==
    \E i \in 1..Len(z) : \E j \in 1..Len(z[i]) : IsFinite(z[i][j]) /\ -z[i][j] >= ExpOverflowAt

\* some parameter or intermediate value is infinite or not a number
NonFiniteSeen ==
    \/ \E A \in {W1, b1, W2, b2, z1, a1, z2, y_hat,
                 d_loss_y_hat, d_y_hat_z2, dW2, db2, d_a1_z1, dW1, db1} : ~AllFinite(A)
    \/ ~AllFinite(<<loss>>)
    \/ ExpOverflowed(z1)
    \/ ExpOverflowed(z2)

\* C8: a value that is infinite or not a number is fatal at the point it
\* arises: no iteration runs its four updates with such a value present.
C8_NonFiniteIsFatal == pc = "report" => ~NonFiniteSeen

RECURSIVE SquaredErrorFrom(_, _)
\* the sum over the elements k, k+1, ... (row by row) of (y - yh)^2, exactly,
\* in squared units; the loss of yh is this sum over Scale^2 and the element count
SquaredErrorFrom(yh, k) ==
    IF k > Rows(yh) * Cols(yh) THEN 0
    ELSE LET i == ((k - 1) \div Cols(yh)) + 1
             j == ((k - 1) % Cols(yh)) + 1
         IN (y[i][j] - yh[i][j]) * (y[i][j] - yh[i][j]) + SquaredErrorFrom(yh, k + 1)

\* loss(yh + e) - loss(yh - e), in squared units times the element count, for
\* e one unit at element (i, j): the loss being quadratic in yh, this central
\* difference over 2 units is the partial derivative of the loss, exactly
LossDifference(yh, i, j) ==
    SquaredErrorFrom([yh EXCEPT ![i][j] = @ + 1], 1)
        - SquaredErrorFrom([yh EXCEPT ![i][j] = @ - 1], 1)

\* the positions at which d_loss_y_hat is that of the current y_hat
ErrorTermCurrent == d_loss_y_hat # Unset /\ pc \notin {"loss", "backprop_out"}

\* C9 as stated: d_loss_y_hat = 2N times the gradient of the reported loss,
\* i.e. d / Scale = 2N * difference / (2 * Scale * count) for every element
C9_ErrorTermIs2NTimesLossGradient ==
    ErrorTermCurrent =>
        \A i \in 1..Rows(y_hat) : \A j \in 1..Cols(y_hat) :
            2 * (Rows(y_hat) * Cols(y_hat)) * d_loss_y_hat[i][j]
                = (2 * Rows(y_hat)) * LossDifference(y_hat, i, j)

\* C9: d_loss_y_hat = -(y - y_hat) is N * output_size / 2 times the gradient
\* with respect to y_hat of the reported loss mean((y - y_hat)^2), i.e.
\* d / Scale = (count / 2) * difference / (2 * Scale * count) for every element
\* with count = N * output_size.
C9_ErrorTermIsHalfCountTimesLossGradient ==
    ErrorTermCurrent =>
        \A i \in 1..Rows(y_hat) : \A j \in 1..Cols(y_hat) :
            2 * (2 * (Rows(y_hat) * Cols(y_hat)) * d_loss_y_hat[i][j])
                = (Rows(y_hat) * Cols(y_hat)) * LossDifference(y_hat, i, j)

\* an error term with a non-zero element, on a batch of more than one row
C9_Witness ==
    /\ pc = "backprop_hidden"
    /\ Rows(y_hat) > 1
    /\ HasNonZero(d_loss_y_hat)
    /\ d_loss_y_hat = Neg(Sub(y, y_hat))

\* C10: the predictions and the mse of the last cell are those of the last
\* iteration's feedforward pass, which y_hat still holds: they are of the
\* parameters after n_epochs - 1 updates, and the parameters have had one more.
C10_FinalOutputIsLastForwardCache ==
    pc = "predicted" =>
        \A P \in {ParamsAfter(n_epochs - 1)} :
        \A yh \in {ForwardOf(P)[4]} :
            /\ y_hat = yh
            /\ printed_pred = Array(Rows(yh), Cols(yh), LAMBDA i, j : RoundDecimals(yh[i][j], 3))
            /\ printed_mse = <<LossOf(yh)>>
            /\ params = StepOf(P)

\* a finished run whose last update changed what the network predicts
C10_Witness ==
    /\ pc = "predicted"
    /\ \E yh \in {ForwardOf(params)[4]} :
          /\ yh # y_hat
          /\ printed_pred # Array(Rows(yh), Cols(yh), LAMBDA i, j : RoundDecimals(yh[i][j], 3))
          /\ printed_mse # <<LossOf(yh)>>

====
